---- MODULE Spec2Model ----
(***************************************************************************)
(* Model of packages/server/index.ts: a WebSocket relay between one client *)
(* and one long-lived agent stream, with an HTTP configuration endpoint.   *)
(*                                                                         *)
(* The process is a single event loop.  Every action below is one          *)
(* synchronous run of a callback (a connection event, a socket event, an   *)
(* HTTP request whose body has been read, a resumption of the message      *)
(* generator, one turn of the for-await loop over the agent's output).     *)
(***************************************************************************)
EXTENDS Integers, Sequences, FiniteSets, TLC

----------------------------------------------------------------------------
(* Bounds of the model *)

MaxConns  == 3   \* sockets that ever attempt to connect
MaxEvents == 6   \* events from outside handled over the whole run: connection
                 \* attempts, closes, inbound frames, HTTP requests, and what
                 \* the agent produces (output items, stderr chunks, the end
                 \* or the failure of its output)

MaxMembers == 2  \* members of a configuration object posted before the run
                 \* (the specification that enumerates configurations)

Conns == 1..MaxConns

\* `null` for the module-level references activeConnection / activeStream
NoConn   == 0
NoStream == 0

----------------------------------------------------------------------------
(* JavaScript values, as far as the server handles them.                   *)
(* t: "null" | "str" | "bool" | "fn" | "obj" | "arr" | "error"             *)
(* An object is its member list in insertion order, keys unique.           *)

Null      == [t |-> "null",  s |-> "", m |-> <<>>]
Str(s)    == [t |-> "str",   s |-> s,  m |-> <<>>]
Bool(s)   == [t |-> "bool",  s |-> s,  m |-> <<>>]
Fn(s)     == [t |-> "fn",    s |-> s,  m |-> <<>>]
Obj(m)    == [t |-> "obj",   s |-> "", m |-> m]
Arr(m)    == [t |-> "arr",   s |-> "", m |-> m]
\* the SyntaxError JSON.parse throws
SyntaxError == [t |-> "error", s |-> "SyntaxError", m |-> <<>>]

Member(k, v) == [k |-> k, v |-> v]

HasKey(m, k) == \E i \in 1..Len(m) : m[i].k = k

\* obj[k] = v on an ordinary object: an existing key keeps its position
SetMember(m, k, v) ==
  IF HasKey(m, k)
  THEN [i \in 1..Len(m) |-> IF m[i].k = k THEN Member(k, v) ELSE m[i]]
  ELSE Append(m, Member(k, v))

\* obj[k], `Null` standing for undefined as well (both are falsy and both
\* are left out of what the server tests)
GetMember(m, k) ==
  IF HasKey(m, k) THEN m[CHOOSE i \in 1..Len(m) : m[i].k = k].v ELSE Null

\* ToBoolean(v)
Truthy(v) ==
  CASE v.t = "null" -> FALSE
    [] v.t = "str"  -> v.s # ""
    [] v.t = "bool" -> v.s = "true"
    [] OTHER        -> TRUE

\* the own enumerable properties `...v` copies: the members of an object,
\* nothing for null and undefined (the index properties of a string are not
\* modelled: no body in Bodies is a bare string)
OwnMembers(v) == IF v.t \in {"obj", "arr"} THEN v.m ELSE <<>>

RECURSIVE SpreadInto(_, _)
\* { ...target, ...src } on member lists
SpreadInto(m, src) ==
  IF src = <<>> THEN m
  ELSE SpreadInto(SetMember(m, Head(src).k, Head(src).v), Tail(src))

----------------------------------------------------------------------------
(* JSON text.  A request body is a sequence of lexical tokens: the         *)
(* punctuators, the literal null, and string literals (every other token). *)
(* The bodies the model posts are scalars and objects of scalar members.   *)

Punct == {"{", "}", ":", ","}

IsStrLit(tok) == tok \notin Punct /\ tok # "null"
IsScalar(tok) == tok \notin Punct

ScalarValue(tok) == IF tok = "null" THEN Null ELSE Str(tok)

RECURSIVE ParseMembers(_, _, _)
\* members of an object from position i on, acc the members read so far
ParseMembers(toks, i, acc) ==
  IF i + 3 > Len(toks) THEN SyntaxError
  ELSE IF ~(IsStrLit(toks[i]) /\ toks[i + 1] = ":" /\ IsScalar(toks[i + 2]))
  THEN SyntaxError
  ELSE LET acc2 == SetMember(acc, toks[i], ScalarValue(toks[i + 2]))
       IN  IF toks[i + 3] = "}"
           THEN IF i + 3 = Len(toks) THEN Obj(acc2) ELSE SyntaxError
           ELSE IF toks[i + 3] = ","
           THEN ParseMembers(toks, i + 4, acc2)
           ELSE SyntaxError

\* JSON.parse(body): the value, or SyntaxError when it throws
JSONParse(toks) ==
  IF toks = <<>> THEN SyntaxError
  ELSE IF IsScalar(toks[1])
  THEN IF Len(toks) = 1 THEN ScalarValue(toks[1]) ELSE SyntaxError
  ELSE IF toks[1] = "{"
  THEN IF Len(toks) >= 2 /\ toks[2] = "}"
       THEN IF Len(toks) = 2 THEN Obj(<<>>) ELSE SyntaxError
       ELSE ParseMembers(toks, 2, <<>>)
  ELSE SyntaxError

RECURSIVE StringifyMembers(_)
StringifyMembers(m) ==
  IF m = <<>> THEN <<>>
  ELSE <<Head(m).k, ":">> \o
       (IF Head(m).v.t = "null" THEN <<"null">> ELSE <<Head(m).v.s>>) \o
       (IF Tail(m) = <<>> THEN <<>> ELSE <<",">> \o StringifyMembers(Tail(m)))

\* JSON.stringify(v) for the values JSONParse yields
JSONStringify(v) ==
  CASE v.t = "null" -> <<"null">>
    [] v.t = "str"  -> <<v.s>>
    [] OTHER        -> <<"{">> \o StringifyMembers(v.m) \o <<"}">>

\* request bodies the model posts to /config
Bodies ==
  { <<"{", "}">>,
    <<"{", "cwd", ":", "/tmp/x", "}">>,
    <<"{", "anthropicApiKey", ":", "sk", ",", "cwd", ":", "/tmp/x", "}">>,
    <<"null">>,
    <<"{", "cwd", ":">>,
    <<>> }

----------------------------------------------------------------------------
(* Options of the agent stream (processMessages, the object literal)       *)

TypeError == [t |-> "error", s |-> "TypeError", m |-> <<>>]

\* the stderr callback the server installs
StderrCallback == Fn("stderr")

DefaultOptions ==
  << Member("permissionMode", Str("bypassPermissions")),
     Member("allowDangerouslySkipPermissions", Bool("true")),
     Member("settingSources", Arr(<<Member("0", Str("project"))>>)),
     Member("cwd", Str("workspaceDirectory")),
     Member("stderr", StderrCallback) >>

CredentialEnv(key) ==
  Obj(<< Member("PATH", Str("process.env.PATH")),
         Member("ANTHROPIC_API_KEY", key) >>)

\* the spread of the stored configuration placed first in the literal, so
\* that the server's defaults win
ResolveOptionsDefaultsLast(config) ==
  IF config.t = "null" THEN TypeError
  ELSE LET merged == SpreadInto(OwnMembers(config), DefaultOptions)
           key    == IF config.t = "obj"
                     THEN GetMember(config.m, "anthropicApiKey") ELSE Null
       IN  IF Truthy(key)
           THEN Obj(SetMember(merged, "env", CredentialEnv(key)))
           ELSE Obj(merged)

\* the options object built from the stored configuration, or TypeError when
\* reading queryConfig.anthropicApiKey throws (queryConfig is null)
ResolveOptions(config) ==
  IF config.t = "null" THEN TypeError
  ELSE LET merged == SpreadInto(DefaultOptions, OwnMembers(config))
           key    == IF config.t = "obj"
                     THEN GetMember(config.m, "anthropicApiKey") ELSE Null
       IN  IF Truthy(key)
           THEN Obj(SetMember(merged, "env", CredentialEnv(key)))
           ELSE Obj(merged)

----------------------------------------------------------------------------
(* Envelopes (WSOutputMessage) *)

Envelope(type, data, error) == [type |-> type, data |-> data, error |-> error]

ConnectedEnv      == Envelope("connected", 0, "")
SdkEnv(n)         == Envelope("sdk_message", n, "")
InfoEnv(n)        == Envelope("info", n, "")
ErrorEnv(message) == Envelope("error", 0, message)

AlreadyActive == "Server already has an active connection"

----------------------------------------------------------------------------
VARIABLES
  activeConnection,  \* let activeConnection: the registered socket or NoConn
  messageQueue,      \* const messageQueue
  activeStream,      \* let activeStream: the stream (its number) or NoStream
  queryConfig,       \* let queryConfig
  sock,              \* per socket: "idle" (not yet connected), "open",
                     \* "closing" (the server called ws.close()), "closed"
  accepted,          \* sockets that got the message and close handlers
  sent,              \* per socket: the envelopes ws.send was given, in order
  streamOptions,     \* the options the stream was constructed with
  streamConfig,      \* history: queryConfig when the stream was constructed
  genPc,             \* generateMessages: "none", "start", "yield", "wait"
  loopPc,            \* the for-await loop: "none", "iterating", "ended", "failed"
  enqueued,          \* history: every message pushed on messageQueue
  yielded,           \* history: every message generateMessages yielded
  produced,          \* history: per agent event, its kind and the socket
                     \* registered when it was produced
  events,            \* events from outside handled so far
  interrupts,        \* interrupt() calls issued on the stream
  queries,           \* history: streams query() has returned
  failures,          \* history: errors caught by processMessages
  http,              \* requests handled, the last request and its response
  frame,             \* inbound frames received, the last one and its socket
  lastPosted         \* history: the body of the latest POST /config that parsed

vars == << activeConnection, messageQueue, activeStream, queryConfig, sock,
           accepted, sent, streamOptions, streamConfig, genPc, loopPc,
           enqueued, yielded, produced, events, interrupts, queries,
           failures, http, frame, lastPosted >>

serverVars == << activeConnection, messageQueue, activeStream, queryConfig >>
wsVars     == << sock, accepted, sent >>
streamVars == << streamOptions, streamConfig, genPc, loopPc, queries, failures >>
histVars   == << enqueued, yielded, produced, interrupts >>
httpVars   == << http, lastPosted >>

NoRequest  == [method |-> "", path |-> "", body |-> <<>>]
NoResponse == [status |-> 0, body |-> <<>>]

Init ==
  /\ activeConnection = NoConn
  /\ messageQueue = <<>>
  /\ activeStream = NoStream
  /\ queryConfig = Obj(<<>>)
  /\ sock = [c \in Conns |-> "idle"]
  /\ accepted = {}
  /\ sent = [c \in Conns |-> <<>>]
  /\ streamOptions = Null
  /\ streamConfig = Null
  /\ genPc = "none"
  /\ loopPc = "none"
  /\ enqueued = <<>>
  /\ yielded = <<>>
  /\ produced = <<>>
  /\ events = 0
  /\ interrupts = 0
  /\ queries = 0
  /\ failures = 0
  /\ http = [n |-> 0, req |-> NoRequest, resp |-> NoResponse]
  /\ frame = [n |-> 0, conn |-> NoConn, kind |-> ""]
  /\ lastPosted = [any |-> FALSE, body |-> <<>>]

\* one more event from outside is handled
Handled == events < MaxEvents /\ events' = events + 1

----------------------------------------------------------------------------
(* Sending *)

\* a send that puts the envelope ahead of what was sent before
SendToFront(s, c, env) == [s EXCEPT ![c] = <<env>> \o @]

\* ws.send(JSON.stringify(output)) on socket c
SendTo(s, c, env) == [s EXCEPT ![c] = Append(@, env)]

\* if (activeConnection) activeConnection.send(...)
SendToActive(s, active, env) ==
  IF active # NoConn THEN SendTo(s, active, env) ELSE s

----------------------------------------------------------------------------
(* HTTP: /config *)

Response(status, body) == [status |-> status, body |-> body]

PostRequest(body) == [method |-> "POST", path |-> "/config", body |-> body]

InvalidJSON == Response(400, <<"{", "error", ":", "Invalid JSON", "}">>)

Success(config) ==
  Response(200, <<"{", "success", ":", "true", ",", "config", ":">>
                \o JSONStringify(config) \o <<"}">>)

\* a handler that stores whatever came out of the parse attempt
ConfigAfterPostClobber(parsed) ==
  IF parsed # SyntaxError THEN parsed ELSE Obj(<<>>)

\* a handler that merges the posted object into the stored one
ConfigAfterPostMerge(parsed) ==
  IF parsed = SyntaxError THEN queryConfig
  ELSE IF parsed.t = "obj" /\ queryConfig.t = "obj"
  THEN Obj(SpreadInto(queryConfig.m, parsed.m))
  ELSE parsed

\* queryConfig after the try block: the assignment happens only when
\* JSON.parse returned
ConfigAfterPost(parsed) ==
  IF parsed # SyntaxError THEN parsed ELSE queryConfig

\* a stream that reads the stored configuration each time it changes
OptionsAfterPostLive(parsed) ==
  IF activeStream # NoStream /\ parsed # SyntaxError /\ parsed # Null
  THEN ResolveOptions(parsed) ELSE streamOptions

\* the options of the stream after a POST: the handler assigns the module
\* variable only, the object processMessages built is not reachable from it
OptionsAfterPost(parsed) == streamOptions

\* req.on('end') of POST /config
PostConfig(body) ==
  /\ Handled
  /\ LET parsed == JSONParse(body)
     IN  /\ queryConfig' = ConfigAfterPost(parsed)
         /\ streamOptions' = OptionsAfterPost(parsed)
         /\ http' = [n |-> http.n + 1, req |-> PostRequest(body),
                     resp |-> IF parsed # SyntaxError
                              THEN Success(parsed) ELSE InvalidJSON]
         /\ lastPosted' = IF parsed # SyntaxError
                          THEN [any |-> TRUE, body |-> body] ELSE lastPosted
  /\ UNCHANGED << activeConnection, messageQueue, activeStream >>
  /\ UNCHANGED << wsVars, histVars, frame >>
  /\ UNCHANGED << streamConfig, genPc, loopPc, queries, failures >>

\* GET /config
GetConfig ==
  /\ Handled
  /\ http' = [n |-> http.n + 1,
              req |-> [method |-> "GET", path |-> "/config", body |-> <<>>],
              resp |-> Response(200,
                <<"{", "config", ":">> \o JSONStringify(queryConfig) \o <<"}">>)]
  /\ UNCHANGED << serverVars, wsVars, streamVars, histVars, frame, lastPosted >>

\* any other path or method
NotFound ==
  /\ Handled
  /\ \E req \in { [method |-> "GET",    path |-> "/",       body |-> <<>>],
                  [method |-> "DELETE", path |-> "/config", body |-> <<>>] } :
       http' = [n |-> http.n + 1, req |-> req,
                resp |-> Response(404, <<"Not Found">>)]
  /\ UNCHANGED << serverVars, wsVars, streamVars, histVars, frame, lastPosted >>

----------------------------------------------------------------------------
(* WebSocket: wss.on('connection') with the synchronous part of            *)
(* processMessages, which runs up to its first await inside the handler    *)

\* a handler without the occupancy check
OccupiedNever == FALSE

\* if (activeConnection): the server is occupied
Occupied == activeConnection # NoConn

\* a handler that starts processing on every accepted connection
NeedsStreamAlways == TRUE

\* if (!activeStream)
NeedsStream == activeStream = NoStream

\* a handler that replays to the new socket what was produced while no
\* socket was registered
AcceptEnvelopesReplay ==
  << ConnectedEnv >> \o
  SelectSeq([i \in 1..Len(produced) |-> Envelope(produced[i].kind, i, "")],
            LAMBDA env : produced[env.data].at = NoConn)

\* a handler that greets nobody
AcceptEnvelopesNone == << >>

\* what an accepted socket is sent by the connection handler itself
AcceptEnvelopes == << ConnectedEnv >>

\* error.message of what processMessages caught while constructing
ConstructError(opts) == IF opts = TypeError THEN "TypeError" ELSE "query failed"

\* The c-th connection attempt.  queryThrows: query() throws instead of
\* returning a stream (the call is inside the try block).
Connect(c, queryThrows) ==
  /\ Handled
  /\ sock[c] = "idle"
  /\ \A d \in Conns : d < c => sock[d] # "idle"
  /\ IF Occupied
     THEN \* error envelope, ws.close(), return: no handler is attached
          /\ ~queryThrows
          /\ sent' = SendTo(sent, c, ErrorEnv(AlreadyActive))
          /\ sock' = [sock EXCEPT ![c] = "closing"]
          /\ UNCHANGED << serverVars, accepted, streamVars >>
     ELSE LET start   == NeedsStream
              opts    == ResolveOptions(queryConfig)
              created == start /\ opts # TypeError /\ ~queryThrows
              caught  == start /\ ~created
              \* the catch block runs before `connected` is sent, and
              \* activeConnection is already this socket
              afterCatch ==
                IF caught
                THEN SendToActive(sent, c, ErrorEnv(ConstructError(opts)))
                ELSE sent
          IN  /\ queryThrows => (start /\ opts # TypeError)
              /\ activeConnection' = c
              /\ IF created
                 THEN /\ activeStream' = queries + 1
                      /\ queries' = queries + 1
                      /\ streamOptions' = opts
                      /\ streamConfig' = queryConfig
                      /\ genPc' = "start"
                      /\ loopPc' = "iterating"
                      /\ UNCHANGED failures
                 ELSE /\ failures' = IF caught THEN failures + 1 ELSE failures
                      /\ UNCHANGED << activeStream, queries, streamOptions,
                                      streamConfig, genPc, loopPc >>
              /\ sent' = [afterCatch EXCEPT ![c] = @ \o AcceptEnvelopes]
              /\ sock' = [sock EXCEPT ![c] = "open"]
              /\ accepted' = accepted \cup {c}
              /\ UNCHANGED << messageQueue, queryConfig >>
  /\ UNCHANGED << histVars, httpVars, frame >>

\* handlers attached to every socket, before the occupancy check
HasHandlersAlways(c) == TRUE

\* ws.on('message') and ws.on('close') are attached after the early return
\* of the occupied branch: only an accepted socket has them
HasHandlers(c) == c \in accepted

\* a close handler that tears the session down with the socket
DisconnectTeardown(c) ==
  /\ Handled
  /\ sock[c] \in {"open", "closing"}
  /\ sock' = [sock EXCEPT ![c] = "closed"]
  /\ activeConnection' = IF HasHandlers(c) /\ activeConnection = c
                         THEN NoConn ELSE activeConnection
  /\ messageQueue' = IF HasHandlers(c) THEN <<>> ELSE messageQueue
  /\ UNCHANGED << activeStream, queryConfig, accepted, sent >>
  /\ UNCHANGED << streamVars, histVars, httpVars, frame >>

\* The 'close' event of a socket: the client went away, or the close the
\* server asked for completed.  ws.on('close') runs if it was attached.
Disconnect(c) ==
  /\ Handled
  /\ sock[c] \in {"open", "closing"}
  /\ sock' = [sock EXCEPT ![c] = "closed"]
  /\ activeConnection' = IF HasHandlers(c) /\ activeConnection = c
                         THEN NoConn ELSE activeConnection
  /\ UNCHANGED << messageQueue, activeStream, queryConfig, accepted, sent >>
  /\ UNCHANGED << streamVars, histVars, httpVars, frame >>

----------------------------------------------------------------------------
(* ws.on('message'): handleMessage(ws, message, {messageQueue,             *)
(* getActiveStream}).  message-handler.ts is not among the sources; its    *)
(* dispatch is the one the specification gives in section 4.5.             *)

FrameKinds == {"user_message", "interrupt", "malformed"}

\* a getter that answers with a stream whether or not one was created
GetActiveStreamStale ==
  IF activeStream = NoStream THEN queries + 1 ELSE activeStream

\* getActiveStream: () => activeStream
GetActiveStream == activeStream

HandleMessage(c, kind) ==
  CASE kind = "user_message" ->
         /\ messageQueue' = Append(messageQueue, Len(enqueued) + 1)
         /\ enqueued' = Append(enqueued, Len(enqueued) + 1)
         /\ UNCHANGED << sent, interrupts >>
    [] kind = "interrupt" ->
         /\ interrupts' = IF GetActiveStream # NoStream
                          THEN interrupts + 1 ELSE interrupts
         /\ UNCHANGED << sent, messageQueue, enqueued >>
    [] OTHER ->
         /\ sent' = SendTo(sent, c, ErrorEnv("Invalid message"))
         /\ UNCHANGED << messageQueue, enqueued, interrupts >>

\* a message handler that closes the socket on a frame it cannot parse
FrameCloseOnError(c, kind) ==
  /\ Handled
  /\ sock[c] \in {"open", "closing"}
  /\ frame' = [n |-> frame.n + 1, conn |-> c, kind |-> kind]
  /\ IF HasHandlers(c)
     THEN /\ HandleMessage(c, kind)
          /\ IF kind = "malformed"
             THEN /\ sock' = [sock EXCEPT ![c] = "closed"]
                  /\ activeConnection' = NoConn
             ELSE UNCHANGED << sock, activeConnection >>
     ELSE UNCHANGED << sent, messageQueue, enqueued, interrupts, sock,
                       activeConnection >>
  /\ UNCHANGED << activeStream, queryConfig, accepted >>
  /\ UNCHANGED << streamVars, yielded, produced, httpVars >>

\* An inbound frame on a socket that is open, or that the server is closing
\* and whose peer has not yet answered the close.  The 'message' event runs
\* ws.on('message') if it was attached.
Frame(c, kind) ==
  /\ Handled
  /\ sock[c] \in {"open", "closing"}
  /\ frame' = [n |-> frame.n + 1, conn |-> c, kind |-> kind]
  /\ IF HasHandlers(c)
     THEN HandleMessage(c, kind)
     ELSE UNCHANGED << sent, messageQueue, enqueued, interrupts >>
  /\ UNCHANGED << activeConnection, activeStream, queryConfig, sock, accepted >>
  /\ UNCHANGED << streamVars, yielded, produced, httpVars >>

----------------------------------------------------------------------------
(* generateMessages: one run of the generator from where it is suspended   *)
(* to its next suspension (the yield, or the 10 ms timer)                  *)

\* messageQueue.pop(): the newest item instead of the oldest
ShiftLast(q) == [item |-> q[Len(q)], rest |-> SubSeq(q, 1, Len(q) - 1)]

\* messageQueue.shift(): the item removed and the rest
Shift(q) == [item |-> Head(q), rest |-> Tail(q)]

\* a generator that returns when it finds the queue empty
GeneratorRunExits ==
  IF messageQueue # <<>>
  THEN /\ messageQueue' = Shift(messageQueue).rest
       /\ yielded' = Append(yielded, Shift(messageQueue).item)
       /\ genPc' = "yield"
  ELSE /\ genPc' = "done"
       /\ UNCHANGED << messageQueue, yielded >>

\* while (true) { while (messageQueue.length > 0) { shift; yield }; await
\* the timer }: the run ends at the yield or at the timer, never returns
GeneratorRun ==
  IF messageQueue # <<>>
  THEN /\ messageQueue' = Shift(messageQueue).rest
       /\ yielded' = Append(yielded, Shift(messageQueue).item)
       /\ genPc' = "yield"
  ELSE /\ genPc' = "wait"
       /\ UNCHANGED << messageQueue, yielded >>

\* the stream asks its prompt for the next message: next() on the generator,
\* which is at its start or suspended at the yield
Pull ==
  /\ UNCHANGED events
  /\ genPc \in {"start", "yield"}
  /\ GeneratorRun
  /\ UNCHANGED << activeConnection, activeStream, queryConfig, wsVars >>
  /\ UNCHANGED << streamOptions, streamConfig, loopPc, queries, failures >>
  /\ UNCHANGED << enqueued, produced, interrupts, httpVars, frame >>

\* the setTimeout of the idle wait fires
TimerFires ==
  /\ UNCHANGED events
  /\ genPc = "wait"
  /\ GeneratorRun
  /\ UNCHANGED << activeConnection, activeStream, queryConfig, wsVars >>
  /\ UNCHANGED << streamOptions, streamConfig, loopPc, queries, failures >>
  /\ UNCHANGED << enqueued, produced, interrupts, httpVars, frame >>

----------------------------------------------------------------------------
(* The agent's output: the for-await loop and the stderr callback          *)

Event(kind, at) == [kind |-> kind, at |-> at]

\* a loop that goes on after its catch block
AgentOutputAfterCatch ==
  /\ Handled
  /\ loopPc \in {"iterating", "failed"}
  /\ produced' = Append(produced, Event("sdk_message", activeConnection))
  /\ sent' = SendToActive(sent, activeConnection, SdkEnv(Len(produced) + 1))
  /\ UNCHANGED << serverVars, sock, accepted, streamVars >>
  /\ UNCHANGED << enqueued, yielded, interrupts, httpVars, frame >>

\* one turn of `for await (const message of activeStream)`
AgentOutput ==
  /\ Handled
  /\ loopPc = "iterating"
  /\ produced' = Append(produced, Event("sdk_message", activeConnection))
  /\ sent' = SendToActive(sent, activeConnection, SdkEnv(Len(produced) + 1))
  /\ UNCHANGED << serverVars, sock, accepted, streamVars >>
  /\ UNCHANGED << enqueued, yielded, interrupts, httpVars, frame >>

\* options.stderr(data), when the option is still the server's callback
AgentStderr ==
  /\ Handled
  /\ activeStream # NoStream
  /\ GetMember(streamOptions.m, "stderr") = StderrCallback
  /\ produced' = Append(produced, Event("info", activeConnection))
  /\ sent' = SendToActive(sent, activeConnection, InfoEnv(Len(produced) + 1))
  /\ UNCHANGED << serverVars, sock, accepted, streamVars >>
  /\ UNCHANGED << enqueued, yielded, interrupts, httpVars, frame >>

\* the iteration throws: the catch block of processMessages
AgentFails ==
  /\ Handled
  /\ loopPc = "iterating"
  /\ loopPc' = "failed"
  /\ failures' = failures + 1
  /\ sent' = SendToActive(sent, activeConnection, ErrorEnv("stream failed"))
  /\ UNCHANGED << serverVars, sock, accepted, histVars, httpVars, frame >>
  /\ UNCHANGED << streamOptions, streamConfig, genPc, queries >>

\* the output sequence completes: the loop and processMessages return
AgentEnds ==
  /\ Handled
  /\ loopPc = "iterating"
  /\ loopPc' = "ended"
  /\ UNCHANGED << serverVars, wsVars, histVars, httpVars, frame >>
  /\ UNCHANGED << streamOptions, streamConfig, genPc, queries, failures >>

----------------------------------------------------------------------------
Next ==
  \/ \E c \in Conns, queryThrows \in BOOLEAN : Connect(c, queryThrows)
  \/ \E c \in Conns : Disconnect(c)
  \/ \E c \in Conns, kind \in FrameKinds : Frame(c, kind)
  \/ Pull
  \/ TimerFires
  \/ AgentOutput
  \/ AgentStderr
  \/ AgentFails
  \/ AgentEnds
  \/ \E body \in Bodies : PostConfig(body)
  \/ GetConfig
  \/ NotFound

Spec == Init /\ [][Next]_vars

----------------------------------------------------------------------------
(* Configurations.  A run that starts after one POST /config of an object  *)
(* of up to MaxMembers members over the option names the server treats     *)
(* specially, and then only opens and closes sockets.                      *)

ConfigKeys   == {"cwd", "anthropicApiKey", "env", "stderr"}
ConfigValues == {"", "v", "null"}

MemberTokens == {<<k, ":", v>> : k \in ConfigKeys, v \in ConfigValues}

RECURSIVE MemberLists(_)
\* the token sequences of n members
MemberLists(n) ==
  IF n = 0 THEN {<< >>}
  ELSE IF n = 1 THEN MemberTokens
  ELSE {a \o <<",">> \o b : a \in MemberLists(n - 1), b \in MemberTokens}

ConfigBodies ==
  {<<"null">>} \cup
  UNION {{<<"{">> \o ms \o <<"}">> : ms \in MemberLists(n)} : n \in 0..MaxMembers}

\* the state PostConfig(body) leaves when it is the first event handled
InitConfigured ==
  \E body \in ConfigBodies :
    /\ queryConfig = JSONParse(body)
    /\ http = [n |-> 1, req |-> PostRequest(body),
               resp |-> Success(JSONParse(body))]
    /\ lastPosted = [any |-> TRUE, body |-> body]
    /\ events = 1
    /\ activeConnection = NoConn
    /\ messageQueue = <<>>
    /\ activeStream = NoStream
    /\ sock = [c \in Conns |-> "idle"]
    /\ accepted = {}
    /\ sent = [c \in Conns |-> <<>>]
    /\ streamOptions = Null
    /\ streamConfig = Null
    /\ genPc = "none"
    /\ loopPc = "none"
    /\ enqueued = <<>>
    /\ yielded = <<>>
    /\ produced = <<>>
    /\ interrupts = 0
    /\ queries = 0
    /\ failures = 0
    /\ frame = [n |-> 0, conn |-> NoConn, kind |-> ""]

NextConfigured ==
  \/ \E c \in Conns, queryThrows \in BOOLEAN : Connect(c, queryThrows)
  \/ \E c \in Conns : Disconnect(c)
  \/ AgentStderr

SpecConfigured == InitConfigured /\ [][NextConfigured]_vars

\* The relay without the HTTP endpoint.  The stored configuration then stays
\* the initial {}; a construction that fails is still there, as query()
\* throwing.
NextRelay ==
  \/ \E c \in Conns, queryThrows \in BOOLEAN : Connect(c, queryThrows)
  \/ \E c \in Conns : Disconnect(c)
  \/ \E c \in Conns, kind \in FrameKinds : Frame(c, kind)
  \/ Pull
  \/ TimerFires
  \/ AgentOutput
  \/ AgentStderr
  \/ AgentFails
  \/ AgentEnds

\* The event loop runs a timer that is due, and the stream goes on asking
\* its prompt for the next message.
FairSpec ==
  Init /\ [][NextRelay]_vars /\ WF_vars(Pull) /\ WF_vars(TimerFires)

----------------------------------------------------------------------------
(* Properties *)

IsPrefix(a, b) == Len(a) <= Len(b) /\ SubSeq(b, 1, Len(a)) = a

CountType(envs, type) ==
  Cardinality({i \in 1..Len(envs) : envs[i].type = type})

\* sockets the handler accepted and that are still open
AcceptedOpen == {c \in Conns : c \in accepted /\ sock[c] = "open"}

\* sockets the handler turned away
Rejected == {c \in Conns : sock[c] \in {"closing", "closed"} /\ c \notin accepted}

\* this step turns socket c away
Rejects(c) == sock[c] = "idle" /\ sock'[c] = "closing"

\* this step is the close of the accepted socket c
Closes(c) == c \in accepted /\ sock[c] = "open" /\ sock'[c] = "closed"

C1_State ==
  /\ Cardinality(AcceptedOpen) <= 1
  /\ AcceptedOpen = IF activeConnection = NoConn THEN {} ELSE {activeConnection}
  /\ \A c \in Rejected :
       /\ CountType(sent[c], "error") = 1
       /\ c # activeConnection

C1_Step ==
  \A c \in Conns :
    Rejects(c) =>
      /\ activeConnection # NoConn
      /\ activeConnection' = activeConnection
      /\ sock'[activeConnection] = "open"
      /\ sent'[c] = << ErrorEnv(AlreadyActive) >>
      /\ sent'[activeConnection] = sent[activeConnection]

\* C1: at most one connection is registered as active; a connection attempt
\* made while another is active gets exactly one error envelope, is closed,
\* never becomes the active connection, and leaves the active connection
\* registered and open.
C1_SingleActiveConnection == []C1_State /\ [][C1_Step]_vars

\* a socket was turned away and the registered one has received agent output
C1_Witness ==
  /\ Rejected # {}
  /\ activeConnection # NoConn
  /\ CountType(sent[activeConnection], "sdk_message") >= 1

\* C2: the messages the generator has yielded are at all times a prefix of
\* the messages enqueued: same order, none twice, none skipped.
C2_YieldedIsPrefixOfEnqueued == IsPrefix(yielded, enqueued)

\* two messages were yielded and a third one was enqueued meanwhile
C2_Witness == Len(yielded) >= 2 /\ messageQueue # <<>>

\* C3: query() returns a stream at most once, whatever the connect, reject
\* and disconnect events.
C3_StreamCreatedAtMostOnce == queries <= 1

\* a stream exists, a second socket was accepted after the first one closed
C3_Witness ==
  /\ queries = 1
  /\ Cardinality(accepted) >= 2
  /\ \E c \in accepted : sock[c] = "closed"

\* C4: an agent event (output item or stderr text) produced while no
\* connection was registered is in no socket's envelopes, whenever the
\* socket was accepted.
C4_NoReplay ==
  \A e \in 1..Len(produced) :
    produced[e].at = NoConn =>
      \A c \in Conns : \A i \in 1..Len(sent[c]) :
        ~(sent[c][i].type \in {"sdk_message", "info"} /\ sent[c][i].data = e)

\* an event was dropped and a socket accepted after it has received a later one
C4_Witness ==
  \E e \in 1..Len(produced) :
    /\ produced[e].at = NoConn
    /\ \E c \in Conns : \E i \in 1..Len(sent[c]) :
         sent[c][i].type \in {"sdk_message", "info"} /\ sent[c][i].data > e

\* C5: the sdk_message envelopes of a socket are agent output items for
\* which it was the registered socket when they were produced, in production
\* order, each at most once.
C5_OutputInOrder ==
  \A c \in Conns :
    /\ \A i \in 1..Len(sent[c]) :
         sent[c][i].type = "sdk_message" =>
           /\ sent[c][i].data \in 1..Len(produced)
           /\ produced[sent[c][i].data] = Event("sdk_message", c)
    /\ \A i, j \in 1..Len(sent[c]) :
         (i < j /\ sent[c][i].type = "sdk_message"
                /\ sent[c][j].type = "sdk_message")
           => sent[c][i].data < sent[c][j].data

\* a socket has received two output items
C5_Witness == \E c \in Conns : CountType(sent[c], "sdk_message") >= 2

\* C6: the close of the registered socket clears activeConnection and leaves
\* the queue, the stream reference and the rest of the session as they were.
C6_DisconnectFrame ==
  [][\A c \in Conns :
       Closes(c) =>
         /\ activeConnection = c
         /\ activeConnection' = NoConn
         /\ UNCHANGED << messageQueue, activeStream, queryConfig >>
         /\ UNCHANGED << streamOptions, genPc, loopPc >>]_vars

\* the registered socket has closed with a message still queued
C6_Witness ==
  /\ activeConnection = NoConn
  /\ activeStream # NoStream
  /\ messageQueue # <<>>
  /\ \E c \in accepted : sock[c] = "closed"

\* this step is the failure of the iteration
IterationFails == loopPc = "iterating" /\ loopPc' = "failed"

C7_Step ==
  /\ IterationFails =>
       IF activeConnection # NoConn
       THEN /\ Len(sent'[activeConnection]) = Len(sent[activeConnection]) + 1
            /\ IsPrefix(sent[activeConnection], sent'[activeConnection])
            /\ sent'[activeConnection][Len(sent'[activeConnection])].type = "error"
            /\ \A c \in Conns \ {activeConnection} : sent'[c] = sent[c]
       ELSE sent' = sent
  /\ loopPc = "failed" =>
       /\ loopPc' = "failed"
       /\ \A c \in Conns :
            CountType(sent'[c], "sdk_message") = CountType(sent[c], "sdk_message")

\* C7: a failure of the iteration sends exactly one error envelope to the
\* registered socket, nothing when there is none, and ends the loop: no
\* sdk_message envelope is sent afterwards.
C7_IterationFailure == [][C7_Step]_vars

\* the iteration failed with a socket registered, which got the error
C7_Witness ==
  /\ loopPc = "failed"
  /\ \E c \in Conns :
       /\ sent[c] # <<>>
       /\ sent[c][Len(sent[c])] = ErrorEnv("stream failed")

\* C8: once processMessages has caught a failure (raised while constructing
\* the stream or while iterating it), no later step starts a stream.
C8_NoRetry == [][failures > 0 => queries' = queries]_vars

\* this step is a POST /config whose body parses
ValidPost ==
  /\ http'.n = http.n + 1
  /\ http'.req.method = "POST"
  /\ http'.req.path = "/config"
  /\ JSONParse(http'.req.body) # SyntaxError

\* this step is a POST /config whose body does not parse
InvalidPost ==
  /\ http'.n = http.n + 1
  /\ http'.req.method = "POST"
  /\ http'.req.path = "/config"
  /\ JSONParse(http'.req.body) = SyntaxError

C9_Step ==
  /\ (activeStream = NoStream /\ activeStream' # NoStream) =>
       streamOptions' = ResolveOptions(queryConfig)
  /\ activeStream # NoStream =>
       /\ streamOptions' = streamOptions
       /\ ValidPost => queryConfig' = JSONParse(http'.req.body)

\* C9: the stream's options are the resolution of the configuration stored
\* when the stream is created; a later POST /config changes the stored
\* configuration and not the stream's options.
C9_ConfigConsumedOnce == [][C9_Step]_vars

\* a POST after creation stored a configuration that resolves differently
C9_Witness ==
  /\ activeStream # NoStream
  /\ http.req.method = "POST"
  /\ http.resp.status = 200
  /\ queryConfig # streamConfig
  /\ streamOptions = ResolveOptions(streamConfig)
  /\ streamOptions # ResolveOptions(queryConfig)

\* C10: a POST /config whose body is not JSON answers 400 {error: "Invalid
\* JSON"} and leaves the stored configuration, the queue, the registered
\* socket and the stream as they were.
C10_InvalidPostFrame ==
  [][InvalidPost =>
       /\ http'.resp.status = 400
       /\ http'.resp.body = <<"{", "error", ":", "Invalid JSON", "}">>
       /\ UNCHANGED << queryConfig, messageQueue, activeConnection >>
       /\ UNCHANGED << activeStream, streamOptions >>]_vars

\* an invalid POST was answered 400 while a posted configuration is stored
C10_Witness ==
  /\ http.resp.status = 400
  /\ http.n >= 2
  /\ queryConfig # Obj(<<>>)

\* the configuration the latest valid POST carried, {} before any
PostedConfig ==
  IF lastPosted.any THEN JSONParse(lastPosted.body) ELSE Obj(<<>>)

\* the last exchange is a GET /config
LastIsGet == http.req.method = "GET" /\ http.req.path = "/config"

\* C11: the stored configuration is the body of the most recent valid POST
\* and nothing else, and GET /config answers 200 with exactly that value.
C11_LastWriteWins ==
  /\ queryConfig = PostedConfig
  /\ LastIsGet =>
       http.resp = Response(200, <<"{", "config", ":">>
                                 \o JSONStringify(PostedConfig) \o <<"}">>)

\* a GET after a POST that dropped a key the stored configuration had
C11_Witness ==
  /\ LastIsGet
  /\ http.n >= 3
  /\ lastPosted.any
  /\ lastPosted.body = <<"{", "cwd", ":", "/tmp/x", "}">>
  /\ streamConfig.t = "obj"
  /\ HasKey(streamConfig.m, "anthropicApiKey")

\* this step delivers a frame of the given kind to the message handler of
\* an accepted socket
Dispatches(kind) ==
  /\ frame'.n = frame.n + 1
  /\ frame'.kind = kind
  /\ frame'.conn \in accepted

\* C12: an interrupt command handled while no stream has been created issues
\* no interrupt, sends no envelope and leaves the queue, the registered
\* socket and the stream reference as they were.
C12_InterruptWithoutStream ==
  [][(Dispatches("interrupt") /\ activeStream = NoStream) =>
       /\ interrupts' = interrupts
       /\ sent' = sent
       /\ UNCHANGED << messageQueue, activeConnection, activeStream >>]_vars

\* an accepted socket has sent an interrupt while there is no stream
C12_Witness ==
  /\ frame.kind = "interrupt"
  /\ frame.conn \in accepted
  /\ activeConnection = frame.conn
  /\ activeStream = NoStream
  /\ interrupts = 0
  /\ CountType(sent[frame.conn], "error") = 1

C13_Step ==
  /\ Dispatches("malformed") =>
       /\ sent'[frame'.conn] # sent[frame'.conn]
       /\ Len(sent'[frame'.conn]) = Len(sent[frame'.conn]) + 1
       /\ IsPrefix(sent[frame'.conn], sent'[frame'.conn])
       /\ sent'[frame'.conn][Len(sent'[frame'.conn])].type = "error"
       /\ \A c \in Conns \ {frame'.conn} : sent'[c] = sent[c]
       /\ UNCHANGED << messageQueue, enqueued, interrupts >>
       /\ UNCHANGED << activeConnection, activeStream, sock, accepted >>
  /\ (Dispatches("user_message") /\ frame.kind = "malformed"
        /\ frame.conn = frame'.conn) =>
       /\ Len(messageQueue') = Len(messageQueue) + 1
       /\ Len(enqueued') = Len(enqueued) + 1

\* C13: a frame that fails to parse is answered with one error envelope to
\* its sender and changes nothing else; the next well-formed frame of the
\* same socket is enqueued as usual.
C13_MalformedFrame == [][C13_Step]_vars

\* a socket got the error for a malformed frame and then enqueued a message
C13_Witness ==
  /\ frame.n >= 2
  /\ frame.kind = "user_message"
  /\ frame.conn \in accepted
  /\ Len(enqueued) = 1
  /\ \E i \in 1..Len(sent[frame.conn]) :
       sent[frame.conn][i] = ErrorEnv("Invalid message")

\* this step accepts socket c
Accepts(c) == sock[c] = "idle" /\ sock'[c] = "open"

C14_State ==
  \A c \in Conns :
    CountType(sent[c], "connected") = IF c \in accepted THEN 1 ELSE 0

C14_Step ==
  \A c \in Conns :
    Accepts(c) =>
      /\ sent'[c] # <<>>
      /\ sent'[c][Len(sent'[c])] = ConnectedEnv

\* C14: an accepted socket is sent exactly one connected envelope, by the
\* step that accepts it; a socket that was turned away is sent none.
C14_ConnectedOnce == []C14_State /\ [][C14_Step]_vars

\* an accepted socket went on receiving envelopes, another was turned away
C14_Witness ==
  /\ Rejected # {}
  /\ \E c \in accepted : Len(sent[c]) >= 3

\* C15: the generator stays in its loop (at its start, at the yield or in
\* the idle wait) once it is created, and while a stream exists every
\* message enqueued is eventually yielded, given that due timers fire and
\* the stream keeps pulling.
C15_EnqueuedEventuallyYielded ==
  /\ [][genPc # "none" => genPc' \in {"start", "yield", "wait"}]_vars
  /\ \A m \in 1..MaxEvents :
       (Len(enqueued) >= m /\ activeStream # NoStream) ~> (Len(yielded) >= m)

\* a message enqueued while the generator was in its idle wait was yielded
C15_Witness ==
  /\ genPc = "wait"
  /\ Len(yielded) >= 2
  /\ Len(yielded) = Len(enqueued)

\* the stored configuration supplies a credential: a non-empty string
SuppliesCredential(cfg) ==
  /\ HasKey(cfg, "anthropicApiKey")
  /\ GetMember(cfg, "anthropicApiKey").t = "str"
  /\ GetMember(cfg, "anthropicApiKey").s # ""

\* C16: in the options of the stream every option of the stored
\* configuration has the stored value and every other default keeps the
\* server's value; with a credential stored, env is the inherited PATH plus
\* the credential, and without one env is what the stored configuration
\* gives, if anything.
C16_Resolution ==
  activeStream # NoStream =>
    LET cfg == streamConfig.m
        o   == streamOptions.m
    IN  /\ streamConfig.t = "obj"
        /\ streamOptions.t = "obj"
        /\ \A i \in 1..Len(cfg) :
             (cfg[i].k # "env" \/ ~SuppliesCredential(cfg)) =>
               HasKey(o, cfg[i].k) /\ GetMember(o, cfg[i].k) = cfg[i].v
        /\ \A i \in 1..Len(DefaultOptions) :
             ~HasKey(cfg, DefaultOptions[i].k) =>
               GetMember(o, DefaultOptions[i].k) = DefaultOptions[i].v
        /\ SuppliesCredential(cfg) =>
             GetMember(o, "env") =
               Obj(<< Member("PATH", Str("process.env.PATH")),
                      Member("ANTHROPIC_API_KEY",
                             GetMember(cfg, "anthropicApiKey")) >>)
        /\ ~SuppliesCredential(cfg) => (HasKey(o, "env") <=> HasKey(cfg, "env"))
        /\ \A j \in 1..Len(o) :
             \/ HasKey(cfg, o[j].k)
             \/ HasKey(DefaultOptions, o[j].k)
             \/ SuppliesCredential(cfg) /\ o[j].k = "env"

\* a stream was created from a configuration with a credential and a cwd
C16_Witness ==
  /\ activeStream # NoStream
  /\ SuppliesCredential(streamConfig.m)
  /\ HasKey(streamConfig.m, "cwd")
  /\ GetMember(streamOptions.m, "cwd") = Str("v")

\* a stream was created from a configuration with an empty credential
C16_WitnessEmpty ==
  /\ activeStream # NoStream
  /\ GetMember(streamConfig.m, "anthropicApiKey") = Str("")
  /\ ~HasKey(streamOptions.m, "env")

C17_State ==
  /\ activeStream \in {NoStream, 1}
  /\ queries = IF activeStream = NoStream THEN 0 ELSE 1
  /\ genPc # "none" <=> activeStream # NoStream
  /\ yielded # << >> => activeStream = 1

C17_Step ==
  /\ activeStream # NoStream => activeStream' = activeStream
  /\ activeStream' # activeStream => \E c \in Conns : Accepts(c)
  /\ yielded' # yielded => activeStream = 1 /\ genPc' = "yield"
  /\ \A c \in Conns : Closes(c) \/ Accepts(c) =>
       (activeStream # NoStream => genPc' = genPc /\ loopPc' = loopPc)

\* C17: there is never more than one stream and one generator instance; once
\* started on an accepted connection the stream reference stays the same
\* through every later close and accept, which leave the generator where it
\* is; and every message taken from the queue is taken by that generator.
C17_SingleConsumer == []C17_State /\ [][C17_Step]_vars

\* the stream started on socket 1; socket 1 closed; the message socket 2
\* enqueued last has been yielded
C17_Witness ==
  /\ activeStream = 1
  /\ failures = 0
  /\ 1 \in accepted /\ sock[1] = "closed"
  /\ frame.conn = 2 /\ frame.kind = "user_message"
  /\ enqueued # << >>
  /\ yielded = enqueued

\* this step is a frame arriving from socket c
FrameFrom(c) == frame'.n = frame.n + 1 /\ frame'.conn = c

\* this step is the close event of socket c
CloseOf(c) == sock[c] \in {"open", "closing"} /\ sock'[c] = "closed"

C18_Step ==
  \A c \in Conns :
    c # activeConnection =>
      /\ FrameFrom(c) =>
           /\ c \in Rejected
           /\ UNCHANGED << serverVars, streamVars, sent, accepted >>
           /\ UNCHANGED << enqueued, yielded, produced, interrupts >>
      /\ CloseOf(c) =>
           /\ c \in Rejected
           /\ UNCHANGED << serverVars, streamVars, sent, accepted, histVars >>

\* C18: a frame from a socket that is not the registered one, and the close
\* of such a socket, change nothing of the server: not the queue, the
\* registered socket, the stream or any socket's envelopes.  Such a socket is
\* always one the handler turned away.
C18_NonActiveHasNoEffect == [][C18_Step]_vars

\* a socket that was turned away sent a user message and then closed, and
\* the registered socket is still registered with nothing enqueued
C18_Witness ==
  \E c \in Rejected :
    /\ frame.conn = c /\ frame.kind = "user_message"
    /\ sock[c] = "closed"
    /\ activeConnection # NoConn
    /\ enqueued = << >>

\* C19: whenever a socket is registered the stream reference is set, and
\* the stream reference is set only once some socket has been accepted.
C19_StreamSetWhenRegistered ==
  /\ activeConnection # NoConn => activeStream # NoStream
  /\ activeStream # NoStream => accepted # {}

\* C20: the first envelope of every accepted socket is `connected`.
C20_ConnectedFirst ==
  \A c \in accepted : sent[c] # << >> => Head(sent[c]) = ConnectedEnv

====
